---- MODULE Spec2Model ----
(***************************************************************************)
(* Model of the Gemini Client Extractor orchestration: the service worker  *)
(* (background.js, locking version), the content-script turns it drives    *)
(* and the side-panel operations on the file queue.                        *)
(*                                                                         *)
(* Every handler is an async function.  A handler instance is a record in  *)
(* the bag procs; one step of the model is one continuation of a handler:  *)
(* the synchronous code from the point where it resumes up to and          *)
(* including the storage / alarm / message call it issues next.  Calls of  *)
(* one process are served in the order they are issued, so the value of a  *)
(* read is the value at the moment the read is issued; it is kept in the   *)
(* handler's locals until the handler resumes.                             *)
(***************************************************************************)
EXTENDS Bags, FiniteSets, Integers, Sequences, TLC

\* ---------------------------------------------------------------- bounds
MaxFiles    == 1   \* files in the initial queue
MaxJobs     == 2   \* jobs per file
MaxDispatch == 3   \* lock acquisitions (Date.now() readings) in a behaviour
MaxStarts   == 1   \* START_PROCESSING requests in a behaviour
MaxOps      == 1   \* other operator / host events in a behaviour
MaxActive   == 2   \* handler instances suspended at the same time
MaxPolls    == 6   \* polls of waitForTextStability: MAX_WAIT_TIME / 1000 (90), scaled down
MaxAttempts == 2   \* send attempts of humanTypeAndSend (15), scaled down
MaxLength   == 2   \* innerText lengths 0..MaxLength
MaxUnits    == 2   \* .model-response-text elements in the page
StableThreshold == 3   \* stableCount >= 3

VARIABLES
    state,      \* chrome.storage.local[STATE_KEY]
    fileQueue,  \* chrome.storage.local.fileQueue
    jobData,    \* IndexedDB store jobData: file id -> number of jobs, -1 = no record
    results,    \* IndexedDB store results (bag of records)
    alarms,     \* chrome.alarms: the two named alarms
    turns,      \* turns running in the content script (bag)
    procs,      \* suspended handler instances (bag)
    clock,      \* number of Date.now() readings taken for the lock
    starts,     \* START_PROCESSING requests so far
    ops,        \* other operator / host events so far
    signals,    \* AUTO_EXPORT_CSV messages emitted so far
    retry,      \* the task whose turn the watchdog cut off, until the next dispatch
    worker,     \* the sendJobData runs of the content script, by slot
    page        \* one turn in the Gemini page: its response elements and loop counters

vars == <<state, fileQueue, jobData, results, alarms, turns, procs, clock, starts, ops, signals, retry,
         worker, page>>

\* ------------------------------------------------------------ state record
DefaultState ==
    [isProcessing |-> FALSE, promptSent |-> FALSE, currentTabId |-> 0,
     isTyping |-> FALSE, typingStartedAt |-> 0]

\* { ...current, ...updates }
Merge(current, updates) ==
    [k \in DOMAIN current |-> IF k \in DOMAIN updates THEN updates[k] ELSE current[k]]

ClearedUpdates ==
    [isProcessing |-> FALSE, promptSent |-> FALSE, currentTabId |-> 0,
     isTyping |-> FALSE, typingStartedAt |-> 0]

UnlockUpdates == [isTyping |-> FALSE, typingStartedAt |-> 0]

\* mutant: the lock is taken without its time stamp
LockUpdatesNoStamp(now) == [isTyping |-> TRUE]

LockUpdates(now) == [isTyping |-> TRUE, typingStartedAt |-> now]

\* ------------------------------------------------------------------ queue
FileMeta(id, total) ==
    [id |-> id, totalJobs |-> total, currentJobIndex |-> 0, status |-> "pending"]

\* index of the first file whose status is not 'complete', 0 when there is none
Target(files) ==
    LET open == {i \in 1..Len(files) : files[i].status # "complete"}
    IN  IF open = {} THEN 0 ELSE CHOOSE i \in open : \A j \in open : i <= j

SetStatus(files, i, s) == [files EXCEPT ![i].status = s]

\* files.findIndex(f => f.id === id), 0 when absent
FindIndex(files, id) ==
    LET hit == {i \in 1..Len(files) : files[i].id = id}
    IN  IF hit = {} THEN 0 ELSE CHOOSE i \in hit : \A j \in hit : i <= j

\* a cursor update that never marks the file complete
AdvanceOnly(files, i) ==
    [files EXCEPT ![i].currentJobIndex = files[i].currentJobIndex + 1]

\* the cursor update of processCompletedJob
Advance(files, i) ==
    LET next == files[i].currentJobIndex + 1
    IN  [files EXCEPT ![i].currentJobIndex = next,
                      ![i].status = IF next >= files[i].totalJobs
                                    THEN "complete" ELSE files[i].status]

\* --------------------------------------------------------------- handlers
Proc(h, pc) ==
    [h |-> h, pc |-> pc, cur |-> DefaultState, files |-> <<>>,
     t |-> 0, n |-> 0, fid |-> 0, job |-> 0, tab |-> 0, ts |-> 0, res |-> "none"]

One(x) == SetToBag({x})

Running(h, pc) == {p \in BagToSet(procs) : p.h = h /\ p.pc = pc}

CanSpawn == BagCardinality(procs) < MaxActive

Spawn(p)   == procs' = procs (+) One(p)
Step(p, q) == procs' = (procs (-) One(p)) (+) One(q)
End(p)     == procs' = procs (-) One(p)

SidepanelHandlers == {"resetFile", "resetAllFiles", "deleteFile", "clearCompleted", "export"}

\* a task: file id and job index; NoTask when there is none
NoTask == [fid |-> 0, job |-> 0]
Task(fid, job) == [fid |-> fid, job |-> job]

\* the PROMPT_GEMINI turns the content script has not answered yet
JobTurns == {tn \in BagToSet(turns) : tn.kind = "job"}

\* the job turn dispatched under the lock taken at time ts, NoTask if it is over
TurnOf(ts) ==
    LET mine == {tn \in JobTurns : tn.ts = ts}
    IN  IF mine = {} THEN NoTask
        ELSE LET tn == CHOOSE x \in mine : TRUE IN Task(tn.fid, tn.job)

\* ------------------------------------------------------------------- Init
InitQueues ==
    UNION {{[i \in 1..len |-> FileMeta(i, tot[i])] : tot \in [1..len -> 0..MaxJobs]}
           : len \in 1..MaxFiles}

\* ------------------------------------------------ content script: sendJobData
\* the job object of a PROMPT_GEMINI message: a job with a title, a job
\* without one, a job whose title is not a string, no job at all
JobShapes == {"titled", "untitled", "badtitle", "none"}

\* one run of sendJobData: its position, its arguments, the messages it sent
Run(pc, job, fid) == [pc |-> pc, job |-> job, fid |-> fid, out |-> <<>>]

IdleRun == Run("idle", "none", 0)

\* a poll that finds no .model-response-text element
NoResponse == 0 - 1

\* the page before a turn: count response elements, the last one of length
\* len; the locals of humanTypeAndSend and waitForTextStability; hist is the
\* list of what the polls of waitForTextStability found, read the index of
\* the element whose text was taken
PageAt(count, len) ==
    [pc |-> "idle", count |-> count, len |-> len, initialCount |-> 0, accepted |-> "no",
     attempts |-> 0, stableCount |-> 0, lastLength |-> 0, polls |-> 0, hist |-> <<>>,
     outcome |-> "none", read |-> 0]

IdlePage == PageAt(0, 0)

JobProcessedMsg(ai, job, fid) ==
    [action |-> "JOB_PROCESSED", aiResult |-> ai, originalJob |-> job, fileId |-> fid]

\* chrome.runtime.sendMessage({action: "JOB_PROCESSED", ...}): the run is over
Sent(r, ai) ==
    [r EXCEPT !.pc = "done", !.out = Append(@, JobProcessedMsg(ai, r.job, r.fid))]

\* a catch block that only logs the error
CaughtSilently(r) == [r EXCEPT !.pc = "done"]

\* the catch block of sendJobData: a placeholder result is sent
Caught(r) == Sent(r, "scriptError")

Init ==
    /\ state = DefaultState
    /\ fileQueue \in InitQueues
    /\ jobData = [i \in 1..MaxFiles |->
                    IF i <= Len(fileQueue) THEN fileQueue[i].totalJobs ELSE -1]
    /\ results = EmptyBag
    /\ alarms = [advance |-> FALSE, watchdog |-> 0]
    /\ turns = EmptyBag
    /\ procs = EmptyBag
    /\ clock = 0
    /\ starts = 0
    /\ ops = 0
    /\ signals = 0
    /\ retry = NoTask
    /\ worker = [slot \in 1..MaxActive |-> IdleRun]
    /\ page = IdlePage

\* scheduleNextJob: chrome.alarms.clear(ALARM_NAME) and, in its callback,
\* chrome.alarms.create(ALARM_NAME, ...): one pending instance of the alarm
ScheduleNextJob(a) == [a EXCEPT !.advance = TRUE]

\* ------------------------------------------------ onAlarm (ALARM_NAME)
\* "CRITICAL: Don't process if already typing"
\* mutant: the alarm listener without its isTyping check
AlarmSkipsNever(st) == FALSE

AlarmSkips(st) == st.isTyping

AlarmFire ==
    /\ alarms.advance
    /\ CanSpawn
    /\ alarms' = [alarms EXCEPT !.advance = FALSE]
    /\ Spawn([Proc("onAlarm", "oa1") EXCEPT !.cur = state])
    /\ UNCHANGED <<state, fileQueue, jobData, results, turns, clock, starts, ops, signals, retry, worker, page>>

OnAlarmCheck ==
    \E p \in Running("onAlarm", "oa1") :
        /\ IF AlarmSkips(p.cur)
           THEN End(p)
           ELSE Step(p, [Proc("onAlarm", "pnj1") EXCEPT !.cur = state])
        /\ UNCHANGED <<state, fileQueue, jobData, results, alarms, turns, clock, starts, ops, signals, retry, worker, page>>

\* ------------------------------------------------------- processNextJob
\* the two early returns: no run active, or the lock is held
PnjSkips(st) == ~st.isProcessing \/ st.isTyping

\* mutant: the skipped file is left in progress
MarkSkippedProcessing(files, t) == SetStatus(files, t, "processing")

\* a skip that drops the file from the queue
MarkSkippedRemoved(files, t) == SubSeq(files, 1, t - 1) \o SubSeq(files, t + 1, Len(files))

\* a file without job data is marked complete and skipped
MarkSkipped(files, t) == SetStatus(files, t, "complete")

PnjGuard ==
    \E p \in Running("onAlarm", "pnj1") :
        /\ IF PnjSkips(p.cur)
           THEN End(p)
           ELSE Step(p, [Proc("onAlarm", "pnj2") EXCEPT
                            !.tab = p.cur.currentTabId, !.files = fileQueue])
        /\ UNCHANGED <<state, fileQueue, jobData, results, alarms, turns, clock, starts, ops, signals, retry, worker, page>>

PnjSelect ==
    \E p \in Running("onAlarm", "pnj2") :
        LET t == Target(p.files) IN
        /\ IF t = 0
           THEN \* clearState(): alarms.clear(TIMEOUT_ALARM), then setState reads
                /\ alarms' = [alarms EXCEPT !.watchdog = 0]
                /\ Step(p, [Proc("onAlarm", "drain1") EXCEPT !.cur = state])
           ELSE \* getJobData(targetFile.id)
                /\ Step(p, [p EXCEPT !.pc = "pnj3", !.cur = DefaultState, !.t = t,
                                     !.n = jobData[p.files[t].id]])
                /\ UNCHANGED alarms
        /\ UNCHANGED <<state, fileQueue, jobData, results, turns, clock, starts, ops, signals, retry, worker, page>>

PnjDrainWrite ==
    \E p \in Running("onAlarm", "drain1") :
        /\ state' = Merge(p.cur, ClearedUpdates)
        /\ Step(p, Proc("onAlarm", "drain2"))
        /\ UNCHANGED <<fileQueue, jobData, results, alarms, turns, clock, starts, ops, signals, retry, worker, page>>

\* AUTO_EXPORT_CSV is sent; when the side panel is open its listener calls
\* exportResultsAsCsv(true), which starts by reading all results
PnjDrainSignal ==
    \E p \in Running("onAlarm", "drain2"), panelOpen \in BOOLEAN :
        /\ signals' = signals + 1
        /\ IF panelOpen
           THEN Step(p, [Proc("export", "ex1") EXCEPT !.n = BagCardinality(results)])
           ELSE End(p)
        /\ UNCHANGED <<state, fileQueue, jobData, results, alarms, turns, clock, starts, ops, retry, worker, page>>

PnjJobs ==
    \E p \in Running("onAlarm", "pnj3") :
        LET f == p.files[p.t] IN
        /\ IF p.n <= 0 \/ f.currentJobIndex >= p.n
           THEN /\ fileQueue' = MarkSkipped(p.files, p.t)
                /\ Step(p, Proc("onAlarm", "skip"))
           ELSE IF f.status = "pending"
           THEN /\ fileQueue' = SetStatus(p.files, p.t, "processing")
                /\ Step(p, [Proc("onAlarm", "pnj4") EXCEPT
                               !.tab = p.tab, !.fid = f.id, !.job = f.currentJobIndex])
           ELSE /\ UNCHANGED fileQueue
                /\ Step(p, [Proc("onAlarm", "lockw") EXCEPT
                               !.tab = p.tab, !.fid = f.id, !.job = f.currentJobIndex,
                               !.cur = state])
        /\ UNCHANGED <<state, jobData, results, alarms, turns, clock, starts, ops, signals, retry, worker, page>>

PnjSkip ==
    \E p \in Running("onAlarm", "skip") :
        /\ alarms' = ScheduleNextJob(alarms)
        /\ End(p)
        /\ UNCHANGED <<state, fileQueue, jobData, results, turns, clock, starts, ops, signals, retry, worker, page>>

PnjLockRead ==
    \E p \in Running("onAlarm", "pnj4") :
        /\ Step(p, [p EXCEPT !.pc = "lockw", !.cur = state])
        /\ UNCHANGED <<state, fileQueue, jobData, results, alarms, turns, clock, starts, ops, signals, retry, worker, page>>

PnjLockWriteUpTo(limit) ==
    \E p \in Running("onAlarm", "lockw") :
        /\ clock < limit
        /\ clock' = clock + 1
        /\ state' = Merge(p.cur, LockUpdates(clock + 1))
        /\ Step(p, [p EXCEPT !.pc = "send", !.cur = DefaultState, !.ts = clock + 1])
        /\ UNCHANGED <<fileQueue, jobData, results, alarms, turns, starts, ops, signals, retry, worker, page>>

PnjLockWrite == PnjLockWriteUpTo(MaxDispatch)

\* the watchdog is armed and PROMPT_GEMINI goes to the content script
PnjSend ==
    \E p \in Running("onAlarm", "send") :
        /\ alarms' = [alarms EXCEPT !.watchdog = clock]
        /\ turns' = turns (+) One([kind |-> "job", fid |-> p.fid, job |-> p.job, ts |-> p.ts])
        /\ retry' = NoTask
        /\ End(p)
        /\ UNCHANGED <<state, fileQueue, jobData, results, clock, starts, ops, signals, worker, page>>

\* ------------------------------------------------ onAlarm (TIMEOUT_ALARM)
WatchdogFire ==
    /\ alarms.watchdog # 0
    /\ CanSpawn
    /\ alarms' = [alarms EXCEPT !.watchdog = 0]
    /\ Spawn([Proc("onTimeout", "wd1") EXCEPT !.cur = state])
    /\ UNCHANGED <<state, fileQueue, jobData, results, turns, clock, starts, ops, signals, retry, worker, page>>

WatchdogCheck ==
    \E p \in Running("onTimeout", "wd1") :
        /\ IF p.cur.isTyping /\ p.cur.typingStartedAt # 0
           THEN Step(p, [Proc("onTimeout", "wd2") EXCEPT !.cur = state])
           ELSE End(p)
        /\ UNCHANGED <<state, fileQueue, jobData, results, alarms, turns, clock, starts, ops, signals, retry, worker, page>>

\* mutant: the watchdog gives the job up and moves the cursor past it
WatchdogSkipsJob ==
    \E p \in Running("onTimeout", "wd2") :
        /\ state' = Merge(p.cur, UnlockUpdates)
        /\ retry' = IF state.isTyping THEN TurnOf(state.typingStartedAt) ELSE retry
        /\ fileQueue' = IF Target(fileQueue) = 0 THEN fileQueue
                        ELSE Advance(fileQueue, Target(fileQueue))
        /\ Step(p, Proc("onTimeout", "wd3"))
        /\ UNCHANGED <<jobData, results, alarms, turns, clock, starts, ops, signals, worker, page>>

WatchdogUnlock ==
    \E p \in Running("onTimeout", "wd2") :
        /\ state' = Merge(p.cur, UnlockUpdates)
        /\ retry' = IF state.isTyping THEN TurnOf(state.typingStartedAt) ELSE retry
        /\ Step(p, Proc("onTimeout", "wd3"))
        /\ UNCHANGED <<fileQueue, jobData, results, alarms, turns, clock, starts, ops, signals, worker, page>>

WatchdogRetry ==
    \E p \in Running("onTimeout", "wd3") :
        /\ alarms' = ScheduleNextJob(alarms)
        /\ End(p)
        /\ UNCHANGED <<state, fileQueue, jobData, results, turns, clock, starts, ops, signals, retry, worker, page>>

\* ------------------------------------------------------ content script
\* A PROMPT_GEMINI turn ends: sendJobData sends JOB_PROCESSED with the parsed
\* result ("ok": fields usable; "null": aiResult is null; "badshape":
\* personName is a non-array value) and the service worker runs
\* processCompletedJob up to its first await.
ResultKinds == {"ok", "badshape"}

JobProcessedTurn(tn, r) ==
    /\ tn \in BagToSet(turns)
    /\ tn.kind = "job"
    /\ CanSpawn
    /\ turns' = turns (-) One(tn)
    /\ alarms' = [alarms EXCEPT !.watchdog = 0]
    /\ Spawn([Proc("completed", "pcj1") EXCEPT
                 !.cur = state, !.fid = tn.fid, !.job = tn.job, !.ts = tn.ts, !.res = r])
    /\ UNCHANGED <<state, fileQueue, jobData, results, clock, starts, ops, signals, retry, worker, page>>

JobProcessed == \E tn \in BagToSet(turns), r \in ResultKinds : JobProcessedTurn(tn, r)

\* A SEND_INITIAL_PROMPT turn ends with PROMPT_SENT: handlePromptSent starts.
PromptSent ==
    \E tn \in BagToSet(turns) :
        /\ tn.kind = "prompt"
        /\ CanSpawn
        /\ turns' = turns (-) One(tn)
        /\ alarms' = [alarms EXCEPT !.watchdog = 0]
        /\ Spawn([Proc("promptSent", "hps1") EXCEPT !.cur = state])
        /\ UNCHANGED <<state, fileQueue, jobData, results, clock, starts, ops, signals, retry, worker, page>>

\* sendInitialPrompt catches an error and only logs it: no message is sent.
PromptFailed ==
    \E tn \in BagToSet(turns) :
        /\ tn.kind = "prompt"
        /\ turns' = turns (-) One(tn)
        /\ UNCHANGED <<state, fileQueue, jobData, results, alarms, procs, clock, starts, ops, signals, retry, worker, page>>

\* ---------------------------------------------------- handlePromptSent
HpsWrite ==
    \E p \in Running("promptSent", "hps1") :
        /\ state' = Merge(p.cur, [promptSent |-> TRUE, isTyping |-> FALSE,
                                  typingStartedAt |-> 0])
        /\ Step(p, Proc("promptSent", "hps2"))
        /\ UNCHANGED <<fileQueue, jobData, results, alarms, turns, clock, starts, ops, signals, retry, worker, page>>

HpsSchedule ==
    \E p \in Running("promptSent", "hps2") :
        /\ alarms' = ScheduleNextJob(alarms)
        /\ End(p)
        /\ UNCHANGED <<state, fileQueue, jobData, results, turns, clock, starts, ops, signals, retry, worker, page>>

\* -------------------------------------------------- processCompletedJob
ResultEntry(fid, job) == [fileId |-> fid, job |-> job]

PcjUnlock ==
    \E p \in Running("completed", "pcj1") :
        /\ state' = Merge(p.cur, UnlockUpdates)
        /\ Step(p, [p EXCEPT !.pc = "pcj2", !.cur = DefaultState])
        /\ UNCHANGED <<fileQueue, jobData, results, alarms, turns, clock, starts, ops, signals, retry, worker, page>>

\* (aiResult.personName || []).join throws on a non-array personName: the
\* outer catch clears the watchdog alarm and calls setState again.
PcjSave ==
    \E p \in Running("completed", "pcj2") :
        /\ IF p.res = "badshape"
           THEN /\ alarms' = [alarms EXCEPT !.watchdog = 0]
                /\ Step(p, [Proc("completed", "pcjE") EXCEPT !.cur = state])
                /\ UNCHANGED results
           ELSE /\ results' = results (+) One(ResultEntry(p.fid, p.job))
                /\ Step(p, [p EXCEPT !.pc = "pcj3"])
                /\ UNCHANGED alarms
        /\ UNCHANGED <<state, fileQueue, jobData, turns, clock, starts, ops, signals, retry, worker, page>>

PcjCatchWrite ==
    \E p \in Running("completed", "pcjE") :
        /\ state' = Merge(p.cur, UnlockUpdates)
        /\ Step(p, Proc("completed", "pcj5"))
        /\ UNCHANGED <<fileQueue, jobData, results, alarms, turns, clock, starts, ops, signals, retry, worker, page>>

PcjReadQueue ==
    \E p \in Running("completed", "pcj3") :
        /\ Step(p, [p EXCEPT !.pc = "pcj4", !.files = fileQueue])
        /\ UNCHANGED <<state, fileQueue, jobData, results, alarms, turns, clock, starts, ops, signals, retry, worker, page>>

\* mutant: a completion whose file is not in the queue returns at once
PcjAdvanceReturns ==
    \E p \in Running("completed", "pcj4") :
        LET i == FindIndex(p.files, p.fid) IN
        /\ IF i # 0
           THEN /\ fileQueue' = Advance(p.files, i)
                /\ Step(p, Proc("completed", "pcj5"))
           ELSE /\ End(p)
                /\ UNCHANGED fileQueue
        /\ UNCHANGED <<state, jobData, results, alarms, turns, clock, starts, ops, signals, retry, worker, page>>

PcjAdvance ==
    \E p \in Running("completed", "pcj4") :
        LET i == FindIndex(p.files, p.fid) IN
        /\ IF i # 0
           THEN /\ fileQueue' = Advance(p.files, i)
                /\ Step(p, Proc("completed", "pcj5"))
                /\ UNCHANGED alarms
           ELSE /\ alarms' = ScheduleNextJob(alarms)
                /\ End(p)
                /\ UNCHANGED fileQueue
        /\ UNCHANGED <<state, jobData, results, turns, clock, starts, ops, signals, retry, worker, page>>

PcjSchedule ==
    \E p \in Running("completed", "pcj5") :
        /\ alarms' = ScheduleNextJob(alarms)
        /\ End(p)
        /\ UNCHANGED <<state, fileQueue, jobData, results, turns, clock, starts, ops, signals, retry, worker, page>>

\* --------------------------------------------------- handleStartRequest
Start ==
    /\ starts < MaxStarts
    /\ CanSpawn
    /\ starts' = starts + 1
    /\ Spawn([Proc("start", "hsr1") EXCEPT !.cur = state])
    /\ UNCHANGED <<state, fileQueue, jobData, results, alarms, turns, clock, ops, signals, retry, worker, page>>

\* the double-start guard, then chrome.tabs.query: tab 1 is the Gemini tab,
\* 0 stands for no active tab on gemini.google.com
HsrGuard ==
    \E p \in Running("start", "hsr1"), tab \in {0, 1} :
        /\ IF p.cur.isTyping
           THEN End(p)
           ELSE Step(p, [Proc("start", "hsr2") EXCEPT !.tab = tab])
        /\ UNCHANGED <<state, fileQueue, jobData, results, alarms, turns, clock, starts, ops, signals, retry, worker, page>>

\* a start that goes on without an active Gemini tab
HsrTabUnchecked ==
    \E p \in Running("start", "hsr2") :
        /\ Step(p, [p EXCEPT !.pc = "hsr3", !.cur = state])
        /\ UNCHANGED <<state, fileQueue, jobData, results, alarms, turns, clock, starts, ops, signals, retry, worker, page>>

HsrTab ==
    \E p \in Running("start", "hsr2") :
        /\ IF p.tab = 0
           THEN End(p)
           ELSE Step(p, [p EXCEPT !.pc = "hsr3", !.cur = state])
        /\ UNCHANGED <<state, fileQueue, jobData, results, alarms, turns, clock, starts, ops, signals, retry, worker, page>>

HsrWrite ==
    \E p \in Running("start", "hsr3") :
        /\ state' = Merge(p.cur, [isProcessing |-> TRUE, currentTabId |-> p.tab,
                                  isTyping |-> FALSE])
        /\ Step(p, [p EXCEPT !.pc = "hsr4", !.cur = DefaultState])
        /\ UNCHANGED <<fileQueue, jobData, results, alarms, turns, clock, starts, ops, signals, retry, worker, page>>

\* initDB, then chrome.scripting.executeScript; its callback sees lastError
\* (injected = FALSE) or reads the state again
HsrInject ==
    \E p \in Running("start", "hsr4"), injected \in BOOLEAN :
        /\ IF injected
           THEN /\ Step(p, [p EXCEPT !.pc = "hsr5", !.cur = state])
                /\ UNCHANGED alarms
           ELSE /\ alarms' = [alarms EXCEPT !.watchdog = 0]
                /\ Step(p, [Proc("start", "hsrC") EXCEPT !.cur = state])
        /\ UNCHANGED <<state, fileQueue, jobData, results, turns, clock, starts, ops, signals, retry, worker, page>>

HsrClearWrite ==
    \E p \in Running("start", "hsrC") :
        /\ state' = Merge(p.cur, ClearedUpdates)
        /\ End(p)
        /\ UNCHANGED <<fileQueue, jobData, results, alarms, turns, clock, starts, ops, signals, retry, worker, page>>

HsrBranch ==
    \E p \in Running("start", "hsr5") :
        /\ IF ~p.cur.promptSent
           THEN /\ Step(p, [p EXCEPT !.pc = "hsr6", !.cur = state])
                /\ UNCHANGED alarms
           ELSE /\ alarms' = ScheduleNextJob(alarms)
                /\ End(p)
        /\ UNCHANGED <<state, fileQueue, jobData, results, turns, clock, starts, ops, signals, retry, worker, page>>

HsrLockWriteUpTo(limit) ==
    \E p \in Running("start", "hsr6") :
        /\ clock < limit
        /\ clock' = clock + 1
        /\ state' = Merge(p.cur, LockUpdates(clock + 1))
        /\ Step(p, [p EXCEPT !.pc = "hsr7", !.cur = DefaultState, !.ts = clock + 1])
        /\ UNCHANGED <<fileQueue, jobData, results, alarms, turns, starts, ops, signals, retry, worker, page>>

HsrLockWrite == HsrLockWriteUpTo(MaxDispatch)

HsrSend ==
    \E p \in Running("start", "hsr7") :
        /\ alarms' = [alarms EXCEPT !.watchdog = clock]
        /\ turns' = turns (+) One([kind |-> "prompt", fid |-> 0, job |-> 0, ts |-> p.ts])
        /\ End(p)
        /\ UNCHANGED <<state, fileQueue, jobData, results, clock, starts, ops, signals, retry, worker, page>>

\* ------------------------------------------------------- stopProcessing
Stop ==
    /\ ops < MaxOps
    /\ CanSpawn
    /\ ops' = ops + 1
    /\ alarms' = [advance |-> FALSE, watchdog |-> 0]
    /\ Spawn([Proc("stop", "stop1") EXCEPT !.cur = state])
    /\ UNCHANGED <<state, fileQueue, jobData, results, turns, clock, starts, signals, retry, worker, page>>

StopWrite ==
    \E p \in Running("stop", "stop1") :
        /\ state' = Merge(p.cur, ClearedUpdates)
        /\ End(p)
        /\ UNCHANGED <<fileQueue, jobData, results, alarms, turns, clock, starts, ops, signals, retry, worker, page>>

\* ------------------------------------------------------- host events
KeepSidepanel(b) ==
    LET keep == {x \in BagToSet(b) : x.h \in SidepanelHandlers}
    IN  [x \in keep |-> b[x]]

\* the service worker is destroyed: its suspended handlers are lost
Restart ==
    /\ ops < MaxOps
    /\ ops' = ops + 1
    /\ procs' = KeepSidepanel(procs)
    /\ UNCHANGED <<state, fileQueue, jobData, results, alarms, turns, clock, starts, signals, retry, worker, page>>

\* the browser starts again: no page and no handler survives, onStartup runs
Startup ==
    /\ ops < MaxOps
    /\ ops' = ops + 1
    /\ turns' = EmptyBag
    /\ procs' = One([Proc("startup", "su1") EXCEPT !.cur = state])
    /\ UNCHANGED <<state, fileQueue, jobData, results, alarms, clock, starts, signals, retry, worker, page>>

StartupResume ==
    \E p \in Running("startup", "su1") :
        /\ IF p.cur.isProcessing /\ ~p.cur.isTyping
           THEN /\ alarms' = ScheduleNextJob(alarms)
                /\ End(p)
           ELSE /\ End(p)
                /\ UNCHANGED alarms
        /\ UNCHANGED <<state, fileQueue, jobData, results, turns, clock, starts, ops, signals, retry, worker, page>>

\* ----------------------------------------------------------- side panel
ResetOne(files, i) == [files EXCEPT ![i].status = "pending", ![i].currentJobIndex = 0]

ResetEvery(files) ==
    [i \in 1..Len(files) |-> [files[i] EXCEPT !.status = "pending", !.currentJobIndex = 0]]

QueueIds == {fileQueue[i].id : i \in 1..Len(fileQueue)}

\* resetFile(id): chrome.storage.local.get, then the write in its callback
ResetFile ==
    \E id \in QueueIds :
        /\ ops < MaxOps
        /\ CanSpawn
        /\ ops' = ops + 1
        /\ Spawn([Proc("resetFile", "rf1") EXCEPT !.files = fileQueue, !.fid = id])
        /\ UNCHANGED <<state, fileQueue, jobData, results, alarms, turns, clock, starts, signals, retry, worker, page>>

ResetFileWrite ==
    \E p \in Running("resetFile", "rf1") :
        LET i == FindIndex(p.files, p.fid) IN
        /\ IF i # 0
           THEN fileQueue' = ResetOne(p.files, i)
           ELSE UNCHANGED fileQueue
        /\ End(p)
        /\ UNCHANGED <<state, jobData, results, alarms, turns, clock, starts, ops, signals, retry, worker, page>>

ResetAll ==
    /\ ops < MaxOps
    /\ CanSpawn
    /\ ops' = ops + 1
    /\ Spawn([Proc("resetAllFiles", "ra1") EXCEPT !.files = fileQueue])
    /\ UNCHANGED <<state, fileQueue, jobData, results, alarms, turns, clock, starts, signals, retry, worker, page>>

ResetAllWrite ==
    \E p \in Running("resetAllFiles", "ra1") :
        /\ IF Len(p.files) = 0
           THEN UNCHANGED fileQueue
           ELSE fileQueue' = ResetEvery(p.files)
        /\ End(p)
        /\ UNCHANGED <<state, jobData, results, alarms, turns, clock, starts, ops, signals, retry, worker, page>>

\* deleteFile(id): deleteJobData first, then the queue is read and filtered
DeleteFile ==
    \E id \in QueueIds :
        /\ ops < MaxOps
        /\ CanSpawn
        /\ ops' = ops + 1
        /\ jobData' = [jobData EXCEPT ![id] = -1]
        /\ Spawn([Proc("deleteFile", "df1") EXCEPT !.fid = id])
        /\ UNCHANGED <<state, fileQueue, results, alarms, turns, clock, starts, signals, retry, worker, page>>

DeleteFileRead ==
    \E p \in Running("deleteFile", "df1") :
        /\ Step(p, [p EXCEPT !.pc = "df2", !.files = fileQueue])
        /\ UNCHANGED <<state, fileQueue, jobData, results, alarms, turns, clock, starts, ops, signals, retry, worker, page>>

DeleteFileWrite ==
    \E p \in Running("deleteFile", "df2") :
        /\ fileQueue' = SelectSeq(p.files, LAMBDA f : f.id # p.fid)
        /\ End(p)
        /\ UNCHANGED <<state, jobData, results, alarms, turns, clock, starts, ops, signals, retry, worker, page>>

\* clearCompletedFiles: one deleteJobData per completed file, then the write
Completed(files) == SelectSeq(files, LAMBDA f : f.status = "complete")

ClearCompleted ==
    /\ ops < MaxOps
    /\ CanSpawn
    /\ ops' = ops + 1
    /\ Spawn([Proc("clearCompleted", "cc1") EXCEPT !.files = fileQueue])
    /\ UNCHANGED <<state, fileQueue, jobData, results, alarms, turns, clock, starts, signals, retry, worker, page>>

ClearCompletedStep ==
    \E p \in Running("clearCompleted", "cc1") :
        LET done == Completed(p.files) IN
        /\ IF p.n < Len(done)
           THEN /\ jobData' = [jobData EXCEPT ![done[p.n + 1].id] = -1]
                /\ Step(p, [p EXCEPT !.n = p.n + 1])
                /\ UNCHANGED fileQueue
           ELSE /\ fileQueue' = SelectSeq(p.files, LAMBDA f : f.status # "complete")
                /\ End(p)
                /\ UNCHANGED jobData
        /\ UNCHANGED <<state, results, alarms, turns, clock, starts, ops, signals, retry, worker, page>>

\* exportResultsAsCsv(true): nothing to export returns early; otherwise the
\* CSV is downloaded and the three stores are cleared one after the other
ExportResults ==
    \E p \in Running("export", "ex1") :
        /\ IF p.n = 0
           THEN /\ End(p)
                /\ UNCHANGED results
           ELSE /\ results' = EmptyBag
                /\ Step(p, Proc("export", "ex2"))
        /\ UNCHANGED <<state, fileQueue, jobData, alarms, turns, clock, starts, ops, signals, retry, worker, page>>

ExportClearJobs ==
    \E p \in Running("export", "ex2") :
        /\ jobData' = [i \in DOMAIN jobData |-> -1]
        /\ Step(p, Proc("export", "ex3"))
        /\ UNCHANGED <<state, fileQueue, results, alarms, turns, clock, starts, ops, signals, retry, worker, page>>

ExportClearQueue ==
    \E p \in Running("export", "ex3") :
        /\ fileQueue' = <<>>
        /\ End(p)
        /\ UNCHANGED <<state, jobData, results, alarms, turns, clock, starts, ops, signals, retry, worker, page>>

\* one run: the service worker, the content script, the start request and
\* the export that the drained queue triggers
NextRun ==
    \/ AlarmFire \/ OnAlarmCheck
    \/ PnjGuard \/ PnjSelect \/ PnjDrainWrite \/ PnjDrainSignal
    \/ PnjJobs \/ PnjSkip \/ PnjLockRead \/ PnjLockWrite \/ PnjSend
    \/ WatchdogFire \/ WatchdogCheck \/ WatchdogUnlock \/ WatchdogRetry
    \/ JobProcessed \/ PromptSent \/ PromptFailed
    \/ HpsWrite \/ HpsSchedule
    \/ PcjUnlock \/ PcjSave \/ PcjCatchWrite \/ PcjReadQueue \/ PcjAdvance \/ PcjSchedule
    \/ Start \/ HsrGuard \/ HsrTab \/ HsrWrite \/ HsrInject \/ HsrClearWrite
    \/ HsrBranch \/ HsrLockWrite \/ HsrSend
    \/ ExportResults \/ ExportClearJobs \/ ExportClearQueue

\* ... and the operator's stop and the host's restarts
Next ==
    \/ NextRun
    \/ Stop \/ StopWrite
    \/ Restart \/ Startup \/ StartupResume

Panel ==
    \/ ResetFile \/ ResetFileWrite \/ ResetAll \/ ResetAllWrite
    \/ DeleteFile \/ DeleteFileRead \/ DeleteFileWrite
    \/ ClearCompleted \/ ClearCompletedStep

NextPanel == Next \/ Panel

SpecRun == Init /\ [][NextRun]_vars

Spec == Init /\ [][Next]_vars

SpecPanel == Init /\ [][NextPanel]_vars

\* the operator clicks Start once more: the button stays enabled while the
\* queue is not empty
StartAgain ==
    /\ starts = MaxStarts
    /\ CanSpawn
    /\ starts' = starts + 1
    /\ Spawn([Proc("start", "hsr1") EXCEPT !.cur = state])
    /\ UNCHANGED <<state, fileQueue, jobData, results, alarms, turns, clock, ops, signals, retry, worker, page>>

NextReentry == NextRun \/ StartAgain

SpecReentry == Init /\ [][NextReentry]_vars

\* Start is clicked again after the run was interrupted by Stop or by the
\* end of the service worker, when no handler is running any more
StartResume == ops > 0 /\ procs = EmptyBag /\ StartAgain

NextResume == Next \/ StartResume

SpecResume == Init /\ [][NextResume]_vars

\* one run in which every turn answers before the typingTimeout alarm is due
NextTimely ==
    \/ AlarmFire \/ OnAlarmCheck
    \/ PnjGuard \/ PnjSelect \/ PnjDrainWrite \/ PnjDrainSignal
    \/ PnjJobs \/ PnjSkip \/ PnjLockRead \/ PnjLockWrite \/ PnjSend
    \/ JobProcessed \/ PromptSent \/ PromptFailed
    \/ HpsWrite \/ HpsSchedule
    \/ PcjUnlock \/ PcjSave \/ PcjCatchWrite \/ PcjReadQueue \/ PcjAdvance \/ PcjSchedule
    \/ Start \/ HsrGuard \/ HsrTab \/ HsrWrite \/ HsrInject \/ HsrClearWrite
    \/ HsrBranch \/ HsrLockWrite \/ HsrSend
    \/ ExportResults \/ ExportClearJobs \/ ExportClearQueue

SpecTimely == Init /\ [][NextTimely]_vars

\* ... interrupted by the host: the service worker is destroyed, or the
\* browser starts again and onStartup runs
NextRecovery == NextTimely \/ Restart \/ Startup \/ StartupResume

SpecRecovery == Init /\ [][NextRecovery]_vars

\* ------------------------------------------- errors inside processNextJob
\* chrome.storage.local.get rejects: the catch block clears the typingTimeout
\* alarm and its setState reads the record
PnjReadFails ==
    \E p \in Running("onAlarm", "pnj2") :
        /\ alarms' = [alarms EXCEPT !.watchdog = 0]
        /\ Step(p, [Proc("onAlarm", "catch") EXCEPT !.cur = state])
        /\ UNCHANGED <<state, fileQueue, jobData, results, turns, clock, starts, ops, signals, retry, worker, page>>

\* the storage write of the lock rejects: catch
PnjLockFails ==
    \E p \in Running("onAlarm", "lockw") :
        /\ alarms' = [alarms EXCEPT !.watchdog = 0]
        /\ Step(p, [Proc("onAlarm", "catch") EXCEPT !.cur = state])
        /\ UNCHANGED <<state, fileQueue, jobData, results, turns, clock, starts, ops, signals, retry, worker, page>>

\* chrome.tabs.sendMessage fails after the typingTimeout alarm was created:
\* the tab has no listener (closed or reloaded page) and the promise the
\* call returns rejects, which nothing awaits.  (The call throws only
\* without a tab id, and the record read at the run check always has one.)
PnjSendFails ==
    \E p \in Running("onAlarm", "send") :
        /\ p.tab # 0
        /\ alarms' = [alarms EXCEPT !.watchdog = clock]
        /\ retry' = NoTask
        /\ End(p)
        /\ UNCHANGED <<state, fileQueue, jobData, results, turns, clock, starts, ops, signals, worker, page>>

PnjCatchWrite ==
    \E p \in Running("onAlarm", "catch") :
        /\ state' = Merge(p.cur, UnlockUpdates)
        /\ Step(p, Proc("onAlarm", "catch2"))
        /\ UNCHANGED <<fileQueue, jobData, results, alarms, turns, clock, starts, ops, signals, retry, worker, page>>

PnjCatchSchedule ==
    \E p \in Running("onAlarm", "catch2") :
        /\ alarms' = ScheduleNextJob(alarms)
        /\ End(p)
        /\ UNCHANGED <<state, fileQueue, jobData, results, turns, clock, starts, ops, signals, retry, worker, page>>

PnjFaults == PnjReadFails \/ PnjLockFails \/ PnjSendFails \/ PnjCatchWrite \/ PnjCatchSchedule

\* addResult rejects: the inner catch logs a warning and processCompletedJob
\* goes on with the progress update
PcjSaveFails ==
    \E p \in Running("completed", "pcj2") :
        /\ p.res = "ok"
        /\ Step(p, [p EXCEPT !.pc = "pcj3", !.res = "unsaved"])
        /\ UNCHANGED <<state, fileQueue, jobData, results, alarms, turns, clock, starts, ops, signals, retry, worker, page>>

NextFaulty == NextRun \/ PnjFaults \/ PcjSaveFails

SpecFaulty == Init /\ [][NextFaulty]_vars

\* ------------------------------------------- the content script on its own
controlVars ==
    <<state, fileQueue, jobData, results, alarms, turns, procs, clock, starts, ops, signals, retry>>

\* what the page shows when the response is read: no response element, text
\* without braces, braces that do not parse, a JSON object
Responses == {"none", "noJson", "badJson", "json"}

\* the listener gets PROMPT_GEMINI and calls sendJobData, which runs up to
\* the first delay of humanTypeAndSend: the log line reads
\* rawJobData.title.substring, then the input box is looked up
SjdStart ==
    \E slot \in 1..MaxActive, job \in JobShapes, fid \in 1..MaxFiles, editor \in BOOLEAN :
        /\ worker[slot].pc \in {"idle", "done"}
        /\ worker' = [worker EXCEPT ![slot] =
                        IF job \in {"badtitle", "none"} \/ ~editor
                        THEN Caught(Run("start", job, fid))
                        ELSE Run("type", job, fid)]
        /\ UNCHANGED <<controlVars, page>>

\* humanTypeAndSend types, presses Enter and tries the send button up to 15
\* times; it returns when the response has started and throws otherwise
SjdType ==
    \E slot \in 1..MaxActive, started \in BOOLEAN :
        /\ worker[slot].pc = "type"
        /\ worker' = [worker EXCEPT ![slot] =
                        IF started THEN [@ EXCEPT !.pc = "wait"] ELSE Caught(@)]
        /\ UNCHANGED <<controlVars, page>>

\* waitForTextStability returns when the text is stable and throws after
\* MAX_WAIT_TIME; then the response is read, parsed and sent
SjdWait ==
    \E slot \in 1..MaxActive, stable \in BOOLEAN, response \in Responses :
        /\ worker[slot].pc = "wait"
        /\ worker' = [worker EXCEPT ![slot] =
                        IF ~stable \/ response = "none" THEN Caught(@)
                        ELSE IF response = "json" THEN Sent(@, "parsed")
                        ELSE IF response = "badJson" THEN Sent(@, "parseError")
                        ELSE Sent(@, "noJson")]
        /\ UNCHANGED <<controlVars, page>>

NextWorker == SjdStart \/ SjdType \/ SjdWait

SpecWorker == Init /\ [][NextWorker]_vars

\* ------------------------------------------------ one turn in the page
\* a loop of waitForTextStability that drops the reset of stableCount
WaitStepNoReset(w, sample) ==
    LET polled == [w EXCEPT !.polls = @ + 1, !.hist = Append(@, sample)]
        counted ==
            IF sample = NoResponse THEN polled
            ELSE IF sample > 0 /\ sample = w.lastLength
            THEN [polled EXCEPT !.stableCount = @ + 1,
                                !.outcome = IF w.stableCount + 1 >= StableThreshold
                                            THEN "stable" ELSE @]
            ELSE [polled EXCEPT !.lastLength = sample]
    IN  IF counted.outcome = "none" /\ counted.polls >= MaxPolls
        THEN [counted EXCEPT !.outcome = "timeout"]
        ELSE counted

\* a loop of waitForTextStability that does not count the time
WaitStepUncounted(w, sample) ==
    IF sample = NoResponse THEN w
    ELSE IF sample > 0 /\ sample = w.lastLength
    THEN [w EXCEPT !.stableCount = @ + 1,
                   !.outcome = IF w.stableCount + 1 >= StableThreshold THEN "stable" ELSE @]
    ELSE [w EXCEPT !.stableCount = 0, !.lastLength = sample]

\* one iteration of the loop of waitForTextStability: after the delay the
\* poll finds sample, the innerText length of the last response element or
\* NoResponse; then the loop condition is tested
WaitStep(w, sample) ==
    LET polled == [w EXCEPT !.polls = @ + 1, !.hist = Append(@, sample)]
        counted ==
            IF sample = NoResponse THEN polled
            ELSE IF sample > 0 /\ sample = w.lastLength
            THEN [polled EXCEPT !.stableCount = @ + 1,
                                !.outcome = IF w.stableCount + 1 >= StableThreshold
                                            THEN "stable" ELSE @]
            ELSE [polled EXCEPT !.stableCount = 0, !.lastLength = sample]
    IN  IF counted.outcome = "none" /\ counted.polls >= MaxPolls
        THEN [counted EXCEPT !.outcome = "timeout"]
        ELSE counted

\* the lengths the last response element can have when there are count
Lengths(count) == IF count = 0 THEN {0} ELSE 0..MaxLength

\* sendJobData samples initialCount and humanTypeAndSend looks the input
\* box up, types the message and presses Enter
TurnStart ==
    \E count \in 0..(MaxUnits - 1), editor \in BOOLEAN :
        \E len \in (IF count = 0 THEN {0} ELSE 1..MaxLength) :
            /\ page.pc = "idle"
            /\ page' = IF editor
                       THEN [PageAt(count, len) EXCEPT !.pc = "submit", !.initialCount = count]
                       ELSE [PageAt(count, len) EXCEPT !.pc = "done", !.outcome = "noEditor"]
            /\ UNCHANGED <<controlVars, worker>>

\* one iteration of the send loop of humanTypeAndSend: a new response
\* element or a Stop button ends it, otherwise the Send button is clicked
\* or a space is typed and the attempt is counted
SubmitPoll ==
    \E count \in {page.count, page.count + 1} \cap 0..MaxUnits, stop \in BOOLEAN :
        \E len \in (IF count = page.count THEN {page.len} ELSE Lengths(count)) :
            /\ page.pc = "submit"
            /\ page' =
                 LET seen == [page EXCEPT !.count = count, !.len = len] IN
                 IF count > page.initialCount
                 THEN [seen EXCEPT !.pc = "wait", !.accepted = "count"]
                 ELSE IF stop
                 THEN [seen EXCEPT !.pc = "wait", !.accepted = "stop"]
                 ELSE IF page.attempts + 1 >= MaxAttempts
                 THEN [seen EXCEPT !.attempts = @ + 1, !.pc = "done", !.outcome = "submitFailed"]
                 ELSE [seen EXCEPT !.attempts = @ + 1]
            /\ UNCHANGED <<controlVars, worker>>

\* one iteration of waitForTextStability; when it returns sendJobData reads
\* the text of the last response element
WaitPoll ==
    \E count \in {0, page.count, page.count + 1} \cap 0..MaxUnits :
        \E len \in Lengths(count) :
            /\ page.pc = "wait"
            /\ page' =
                 LET sample == IF count = 0 THEN NoResponse ELSE len
                     w == WaitStep([page EXCEPT !.count = count, !.len = len], sample)
                 IN  IF w.outcome = "stable" THEN [w EXCEPT !.pc = "done", !.read = count]
                     ELSE IF w.outcome = "timeout" THEN [w EXCEPT !.pc = "done"]
                     ELSE w
            /\ UNCHANGED <<controlVars, worker>>

NextTurn == TurnStart \/ SubmitPoll \/ WaitPoll

SpecTurn == Init /\ [][NextTurn]_vars

\* timers of the page fire: every delay of the turn ends
SpecTurnFair == SpecTurn /\ WF_vars(NextTurn)

\* ------------------------------------------------ the end-to-end scenario
\* One file of three jobs.  Every turn ends with a usable result except the
\* first turn of job 1, which never answers: the watchdog ends it.
ScenarioQueue == <<FileMeta(1, 3)>>

ScenarioLocks == ScenarioQueue[1].totalJobs + 2

ScenarioInit ==
    /\ state = DefaultState
    /\ fileQueue = ScenarioQueue
    /\ jobData = [i \in 1..MaxFiles |-> IF i = 1 THEN ScenarioQueue[1].totalJobs ELSE -1]
    /\ results = EmptyBag
    /\ alarms = [advance |-> FALSE, watchdog |-> 0]
    /\ turns = EmptyBag
    /\ procs = EmptyBag
    /\ clock = 0
    /\ starts = 0
    /\ ops = 0
    /\ signals = 0
    /\ retry = NoTask
    /\ worker = [slot \in 1..MaxActive |-> IdleRun]
    /\ page = IdlePage

\* the lock serial of the first PROMPT_GEMINI turn of a job when no turn
\* before it was retried: one lock for the initial prompt, one per job
FirstAttemptLock(job) == job + 2

ScenarioStart == starts = 0 /\ Start

\* the watchdog ends the first turn of job 1 ...
ScenarioWatchdog ==
    /\ state.isTyping /\ state.typingStartedAt = FirstAttemptLock(1)
    /\ WatchdogFire

\* ... which never answers: its tab hangs, or goes away without a message
ScenarioTurnLost ==
    \E tn \in JobTurns :
        /\ tn.ts = FirstAttemptLock(1)
        /\ turns' = turns (-) One(tn)
        /\ UNCHANGED <<state, fileQueue, jobData, results, alarms, procs, clock, starts,
                       ops, signals, retry, worker, page>>

ScenarioCompletion ==
    \E tn \in JobTurns : tn.ts # FirstAttemptLock(1) /\ JobProcessedTurn(tn, "ok")

ScenarioNext ==
    \/ ScenarioStart \/ HsrGuard \/ HsrTab \/ HsrWrite \/ HsrInject \/ HsrClearWrite
    \/ HsrBranch \/ HsrLockWriteUpTo(ScenarioLocks) \/ HsrSend
    \/ PromptSent \/ HpsWrite \/ HpsSchedule
    \/ AlarmFire \/ OnAlarmCheck
    \/ PnjGuard \/ PnjSelect \/ PnjDrainWrite \/ PnjDrainSignal
    \/ PnjJobs \/ PnjLockRead \/ PnjLockWriteUpTo(ScenarioLocks) \/ PnjSend
    \/ ScenarioWatchdog \/ WatchdogCheck \/ WatchdogUnlock \/ WatchdogRetry
    \/ ScenarioTurnLost \/ ScenarioCompletion
    \/ PcjUnlock \/ PcjSave \/ PcjReadQueue \/ PcjAdvance \/ PcjSchedule
    \/ ExportResults \/ ExportClearJobs \/ ExportClearQueue

ScenarioSpec == ScenarioInit /\ [][ScenarioNext]_vars /\ WF_vars(ScenarioNext)

\* =================================================================== claims
\* helpers of the formulas
CopiesOf(p, b) == IF p \in BagToSet(b) THEN CopiesIn(p, b) ELSE 0

\* handler instance p takes a step of its own (it is not destroyed with the
\* service worker)
Stepped(p) == CopiesOf(p, procs') < CopiesOf(p, procs) /\ ops' = ops

NumJobTurns == BagCardinality([tn \in JobTurns |-> turns[tn]])

\* the cursor of file id in queue q, -1 when the file is not in q
Cursor(q, id) ==
    LET i == FindIndex(q, id) IN IF i = 0 THEN -1 ELSE q[i].currentJobIndex

\* C1: at most one Task is in flight: the number of turns dispatched to the
\* content script and not yet finished is at most one.
C1_AtMostOneInFlight == NumJobTurns <= 1

\* C2: a dispatch attempt while the lock is held is a no-op: the alarm handler
\* or processNextJob that read isTyping = TRUE returns at once; no message is
\* sent, no alarm is armed and the state record, the queue and the results
\* are left as they are.
C2_LockedDispatchIsNoOp ==
    [][\A p \in BagToSet(procs) :
          (p.h = "onAlarm" /\ p.pc \in {"oa1", "pnj1"} /\ p.cur.isTyping /\ Stepped(p))
          => /\ procs' = procs (-) One(p)
             /\ UNCHANGED <<state, fileQueue, jobData, results, alarms, turns>>]_vars

\* C2 witness: the advance alarm has fired while a job turn holds the lock
C2_Witness ==
    /\ state.isTyping /\ NumJobTurns = 1
    /\ \E p \in BagToSet(procs) : p.h = "onAlarm" /\ p.pc = "oa1" /\ p.cur.isTyping

\* a completion is stale when a newer turn holds the lock or the cursor has
\* passed its job
StaleAtArrival(tn) ==
    \/ state.isTyping /\ tn.ts # state.typingStartedAt
    \/ Cursor(fileQueue, tn.fid) > tn.job

\* C3: a JOB_PROCESSED message that belongs to a turn the watchdog already
\* force-retried, or to a job index the cursor has already passed, is ignored:
\* it cancels no watchdog and releases no lock of a newer turn, appends no
\* result and advances no cursor.
C3_StaleCompletionIgnored ==
    [][/\ \A tn \in JobTurns :
            (CopiesOf(tn, turns') < CopiesOf(tn, turns) /\ ops' = ops /\ StaleAtArrival(tn))
            => alarms' = alarms
       /\ \A p \in BagToSet(procs) :
            (p.h = "completed" /\ Stepped(p))
            => /\ (state.isTyping /\ p.ts # state.typingStartedAt) => state' = state
               /\ Cursor(fileQueue, p.fid) > p.job
                    => (fileQueue' = fileQueue /\ results' = results)]_vars

\* the steps of the TIMEOUT_ALARM handler
WatchdogFrame ==
    \A p \in BagToSet(procs) :
        (p.h = "onTimeout" /\ Stepped(p))
        => /\ fileQueue' = fileQueue
           /\ p.pc = "wd2" => (~state'.isTyping /\ state'.typingStartedAt = 0)
           /\ p.pc = "wd3" => alarms'.advance

\* the dispatch that follows a forced unlock
RetrySendsSameJob ==
    \A p \in BagToSet(procs) :
        (p.h = "onAlarm" /\ p.pc = "send" /\ Stepped(p) /\ retry # NoTask)
        => Task(p.fid, p.job) = retry

\* C4: when the watchdog finds the lock held it clears the lock, changes no
\* file's cursor or status and re-arms the advance alarm, and the next
\* dispatch sends the job of the turn it cut off.
C4_ForcedUnlockRetry == [][WatchdogFrame /\ RetrySendsSameJob]_vars

HasResult(fid, job) == ResultEntry(fid, job) \in BagToSet(results)

\* C5: no task is lost: a file is never complete (other than by the skip of
\* a file without job data) while one of its jobs has no result.  Stated for
\* the time before the results are exported and cleared.
C5_NoLostTask ==
    signals = 0 =>
        \A i \in 1..Len(fileQueue) :
            (fileQueue[i].status = "complete" /\ jobData[fileQueue[i].id] > 0)
            => \A j \in 0..(fileQueue[i].totalJobs - 1) : HasResult(fileQueue[i].id, j)

ResetStep == \E p \in BagToSet(procs) : p.h \in {"resetFile", "resetAllFiles"} /\ Stepped(p)

\* C6: outside resetFile / resetAllFiles no step lowers the currentJobIndex
\* of a file that stays in the queue.
C6_CursorMonotone ==
    [][ResetStep \/
       \A i \in 1..Len(fileQueue) :
          \/ Cursor(fileQueue', fileQueue[i].id) = -1
          \/ Cursor(fileQueue', fileQueue[i].id) >= fileQueue[i].currentJobIndex]_vars

\* C7: AUTO_EXPORT_CSV is emitted at most once for each START_PROCESSING.
C7_DrainOnce == signals <= starts

RecordsOf(fid, job) == CopiesOf(ResultEntry(fid, job), results)

\* C8: the results hold exactly one record for each job the cursor has
\* passed and no job has two records (before the export clears them).
C8_OneRecordPerTask ==
    signals = 0 =>
        \A i \in 1..Len(fileQueue) : \A j \in 0..(MaxJobs + MaxDispatch) :
            /\ RecordsOf(fileQueue[i].id, j) <= 1
            /\ j < fileQueue[i].currentJobIndex => RecordsOf(fileQueue[i].id, j) = 1

\* C9: a file whose job list is empty or missing is marked complete by
\* processNextJob without taking the lock, arming the watchdog, sending
\* PROMPT_GEMINI or adding a result, and the advance alarm is armed again.
C9_EmptyFileSkipped ==
    [][\A p \in BagToSet(procs) :
          /\ (p.h = "onAlarm" /\ p.pc = "pnj3" /\ p.n <= 0 /\ Stepped(p))
             => /\ fileQueue'[p.t].status = "complete"
                /\ Proc("onAlarm", "skip") \in BagToSet(procs')
                /\ UNCHANGED <<state, results, alarms, turns, clock>>
          /\ (p.h = "onAlarm" /\ p.pc = "skip" /\ Stepped(p))
             => /\ alarms'.advance /\ alarms'.watchdog = alarms.watchdog
                /\ UNCHANGED <<state, fileQueue, results, turns, clock>>]_vars

\* C9 witness: an empty file was skipped: it is complete, nothing was sent or
\* saved for it, the lock is free and the advance alarm is pending
C9_Witness ==
    /\ Len(fileQueue) > 0
    /\ fileQueue[1].totalJobs = 0
    /\ fileQueue[1].status = "complete"
    /\ ~state.isTyping /\ state.isProcessing
    /\ alarms.advance /\ alarms.watchdog = 0
    /\ results = EmptyBag /\ NumJobTurns = 0

\* the scenario file's cursor and its state when the queue has drained
ScenarioCursor == Cursor(fileQueue, ScenarioQueue[1].id)

ScenarioDrained ==
    /\ ScenarioCursor = ScenarioQueue[1].totalJobs
    /\ fileQueue[1].status = "complete"
    /\ BagCardinality(results) = ScenarioQueue[1].totalJobs
    /\ \A j \in 0..(ScenarioQueue[1].totalJobs - 1) : RecordsOf(1, j) = 1

C11_DispatchOrder ==
    [][\A p \in BagToSet(procs) :
          (p.h = "onAlarm" /\ p.pc = "send" /\ Stepped(p))
          => LET t == Target(fileQueue)
             IN  /\ t # 0
                 /\ fileQueue[t].id = p.fid
                 /\ fileQueue[t].currentJobIndex = p.job]_vars

\* C12: in every stored state record isTyping = TRUE implies that
\* typingStartedAt is not null.
C12_LockHasTimestamp == state.isTyping => state.typingStartedAt # 0

\* C12 witness: a job turn holds the lock while another handler still holds
\* an older copy of the record that it will merge its updates into
C12_Witness ==
    /\ state.isTyping /\ NumJobTurns = 1
    /\ \E p \in BagToSet(procs) : p.pc \in {"pcj1", "wd2", "hps1", "hsr3"} /\ p.cur # state

\* C13: in every stored state record isTyping = TRUE implies
\* isProcessing = TRUE.
C13_LockImpliesProcessing == state.isTyping => state.isProcessing

\* C14: for every file of the stored queue 0 <= currentJobIndex <= totalJobs.
C14_CursorInRange ==
    \A i \in DOMAIN fileQueue :
        /\ 0 <= fileQueue[i].currentJobIndex
        /\ fileQueue[i].currentJobIndex <= fileQueue[i].totalJobs

\* the job data of the file is empty or cannot be read
NoPayload(f) == jobData[f.id] <= 0

\* C15 as stated: for every file of the queue status = 'complete' if and only
\* if currentJobIndex >= totalJobs or the file was skipped because its job
\* data is empty or unreadable; a file with currentJobIndex >= totalJobs is
\* never 'pending' or 'processing'.
C15_CompleteIffDone ==
    \A i \in DOMAIN fileQueue :
        LET f == fileQueue[i] IN
        /\ f.status = "complete" => (f.currentJobIndex >= f.totalJobs \/ NoPayload(f))
        /\ f.currentJobIndex >= f.totalJobs => f.status = "complete"

\* C15 amended: the same for every file with totalJobs > 0; a file with
\* status 'complete' has currentJobIndex >= totalJobs or no job data, and a
\* file with at least one job whose currentJobIndex >= totalJobs is 'complete'.
C15_CompleteIffDoneNonEmpty ==
    \A i \in DOMAIN fileQueue :
        LET f == fileQueue[i] IN
        /\ f.status = "complete" => (f.currentJobIndex >= f.totalJobs \/ NoPayload(f))
        /\ (f.totalJobs > 0 /\ f.currentJobIndex >= f.totalJobs) => f.status = "complete"

\* C15 witness: the last completion of a file with jobs has moved the cursor
\* to totalJobs and the file is 'complete'.
C15_Witness ==
    \E i \in DOMAIN fileQueue :
        LET f == fileQueue[i] IN
        /\ f.totalJobs > 0 /\ f.currentJobIndex = f.totalJobs /\ f.status = "complete"
        /\ HasResult(f.id, f.totalJobs - 1)

\* handleStartRequest has queried the tabs and found no active Gemini tab
NoTabStart(p) == p.h = "start" /\ p.pc = "hsr2" /\ p.tab = 0

\* C16: when handleStartRequest finds no active Gemini tab it returns: the
\* state record, both alarms, the file queue and the turns in the page are
\* unchanged (isTyping and isProcessing are not set) and the handler has no
\* continuation.
C16_NoTabNoStart ==
    [][\A p \in BagToSet(procs) :
          (NoTabStart(p) /\ Stepped(p))
          => /\ procs' = procs (-) One(p)
             /\ state' = state
             /\ alarms' = alarms
             /\ fileQueue' = fileQueue
             /\ turns' = turns]_vars

\* C16 witness: a start request has found no active Gemini tab.
C16_Witness == \E p \in BagToSet(procs) : NoTabStart(p)

\* a start request that read isTyping = TRUE and is at the double-start guard
BusyStart(p) == p.h = "start" /\ p.pc = "hsr1" /\ p.cur.isTyping

\* a start request about to send SEND_INITIAL_PROMPT
HandshakeSend(p) == p.h = "start" /\ p.pc = "hsr7"

\* C17: a start request that reads isTyping = TRUE returns without changing
\* the state record, the alarms, the queue or the turns in the page; and
\* SEND_INITIAL_PROMPT is never sent while a turn is in flight.
C17_StartReentrant ==
    [][\A p \in BagToSet(procs) :
          /\ (BusyStart(p) /\ Stepped(p))
             => /\ procs' = procs (-) One(p)
                /\ state' = state
                /\ alarms' = alarms
                /\ fileQueue' = fileQueue
                /\ turns' = turns
          /\ (HandshakeSend(p) /\ Stepped(p)) => turns = EmptyBag]_vars

\* stopProcessing has cleared both alarms and is about to store the default state
Stopping(p) == p.h = "stop" /\ p.pc = "stop1"

\* C18: when stopProcessing completes, the stored state is the default
\* record (isProcessing, isTyping and promptSent false, typingStartedAt and
\* currentTabId null) and neither alarm is pending.
C18_StopResets ==
    [][\A p \in BagToSet(procs) :
          (Stopping(p) /\ Stepped(p))
          => /\ state' = DefaultState
             /\ alarms' = [advance |-> FALSE, watchdog |-> 0]]_vars

\* onStartup has read a state with isProcessing = TRUE and isTyping = FALSE
Resuming(p) == p.h = "startup" /\ p.pc = "su1" /\ p.cur.isProcessing /\ ~p.cur.isTyping

\* no job has two results and no cursor has moved beyond totalJobs
NoDoubleCount ==
    \A i \in 1..Len(fileQueue) :
        /\ fileQueue[i].currentJobIndex <= fileQueue[i].totalJobs
        /\ \A j \in 0..(MaxJobs + MaxDispatch) : RecordsOf(fileQueue[i].id, j) <= 1

\* C19: onStartup with isProcessing = TRUE and isTyping = FALSE arms the
\* advance alarm; every PROMPT_GEMINI sent carries the job at the stored
\* currentJobIndex of its file; and in a run that is interrupted only by
\* restarts no job gets a second result and no cursor an extra advance.
C19_RestartRecovery ==
    [][/\ \A p \in BagToSet(procs) :
             /\ (Resuming(p) /\ Stepped(p)) => alarms'.advance
             /\ (p.h = "onAlarm" /\ p.pc = "send" /\ Stepped(p))
                => Cursor(fileQueue, p.fid) = p.job
       /\ NoDoubleCount']_vars

\* C20: a held lock is always going to be released: whenever isTyping is
\* TRUE the typingTimeout alarm is pending or a handler of the service
\* worker is still running (the one that will arm the alarm or store the
\* unlocked state).  Where this fails the lock is held with nothing left to
\* release it: no completion arriving, isTyping stays TRUE for ever.
C20_LockHasReleaser ==
    state.isTyping => (alarms.watchdog # 0 \/ procs # EmptyBag)

\* the aiResult values sendJobData sends: the parsed object, a note in
\* place of a response that does not parse, the placeholder of the catch block
AiResults == {"parsed", "parseError", "noJson", "scriptError"}

\* the runs of sendJobData that have started
Runs == {worker[slot] : slot \in {k \in 1..MaxActive : worker[k].pc # "idle"}}

\* C21: every run of sendJobData sends exactly one JOB_PROCESSED, with a
\* result, the job it was given and the file id it was given: a run that is
\* over has sent one, a run that is not over has sent none and can go on.
C21_OneCompletionPerTurn ==
    \A r \in Runs :
        /\ r.pc = "done" =>
              /\ Len(r.out) = 1
              /\ \E ai \in AiResults : r.out[1] = JobProcessedMsg(ai, r.job, r.fid)
        /\ r.pc # "done" => (r.out = <<>> /\ ENABLED (SjdType \/ SjdWait))

\* C21 witness: one run has ended in the catch block and another one with a
\* parsed response.
C21_Witness ==
    /\ \E r \in Runs : r.pc = "done" /\ r.out[1].aiResult = "scriptError"
    /\ \E r \in Runs : r.pc = "done" /\ r.out[1].aiResult = "parsed"

\* the content script has ended the turn tn in this step
TurnEnded(tn) == CopiesOf(tn, turns') < CopiesOf(tn, turns) /\ ops' = ops

\* a handler that stores isTyping = FALSE has started in this step
ReleaseStarted ==
    \E q \in BagToSet(procs') :
        /\ q.pc \in {"pcj1", "hps1"}
        /\ CopiesOf(q, procs') > CopiesOf(q, procs)

\* C22: whenever a turn of the content script ends, with or without an
\* error, for a job or for the initial prompt, the service worker receives
\* a message whose handler releases the lock (JOB_PROCESSED or PROMPT_SENT).
C22_ErrorReleasesLock ==
    [][\A tn \in BagToSet(turns) : TurnEnded(tn) => ReleaseStarted]_vars

\* C23: processCompletedJob, whatever result the message carries, stores
\* isTyping = FALSE, then adds exactly one result for the job, then moves
\* the cursor of the file by exactly one.
C23_CompletionNeverDrops ==
    [][\A p \in BagToSet(procs) :
          (p.h = "completed" /\ Stepped(p))
          => /\ p.pc = "pcj1" => ~state'.isTyping
             /\ p.pc = "pcj2" => results' = results (+) One(ResultEntry(p.fid, p.job))
             /\ p.pc = "pcj4" =>
                   Cursor(fileQueue', p.fid) = Cursor(p.files, p.fid) + 1]_vars

\* the ids of the files the reset handler p writes as reset
ResetIds(p) ==
    IF p.h = "resetAllFiles"
    THEN {p.files[i].id : i \in 1..Len(p.files)}
    ELSE IF FindIndex(p.files, p.fid) # 0 THEN {p.fid} ELSE {}

\* C24: resetFile and resetAllFiles store currentJobIndex = 0 and status
\* 'pending' for the files they reset, and a reset of a file that has a
\* PROMPT_GEMINI turn in flight leaves the lock released, so that the
\* completion of that turn cannot move the reset cursor.
C24_ResetNotInFlight ==
    [][\A p \in BagToSet(procs) :
          (p.h \in {"resetFile", "resetAllFiles"} /\ Stepped(p))
          => /\ \A id \in ResetIds(p) :
                   LET i == FindIndex(fileQueue', id) IN
                   /\ i # 0
                   /\ fileQueue'[i].currentJobIndex = 0
                   /\ fileQueue'[i].status = "pending"
             /\ (\E tn \in JobTurns : tn.fid \in ResetIds(p)) => ~state'.isTyping]_vars

\* the file id leaves the stored queue in this step
Removed(id) == id \in QueueIds /\ id \notin {fileQueue'[i].id : i \in 1..Len(fileQueue')}

\* a handler of kind h takes a step
Acts(h) == \E p \in BagToSet(procs) : p.h = h /\ Stepped(p)

ExportReturns(pc) ==
    \E p \in Running("export", pc) :
        /\ CopiesOf(p, procs') < CopiesOf(p, procs)
        /\ \A q \in BagToSet(procs') : q.h = "export" => CopiesOf(q, procs') <= CopiesOf(q, procs)

StoresEmpty == results = EmptyBag /\ (\A i \in DOMAIN jobData : jobData[i] = -1) /\ fileQueue = <<>>

\* C26: when the handling of AUTO_EXPORT_CSV is over, the results have
\* been exported and the results store, the job data store and the file
\* queue are all empty.
C26_DrainExportsAndCleans ==
    [][(\E pc \in {"ex1", "ex2", "ex3"} : ExportReturns(pc)) => (ExportReturns("ex3") /\ StoresEmpty')]_vars

\* the same for the exports that found results to download
C26_ExportCleans == [][ExportReturns("ex3") => StoresEmpty']_vars

\* processNextJob sends PROMPT_GEMINI for p.fid, p.job in this step
Sends(p) == p.h = "onAlarm" /\ p.pc = "send" /\ Stepped(p)

\* C27: once Start has been clicked again, every PROMPT_GEMINI sent carries
\* the job at the stored currentJobIndex of the first file that is not
\* complete, so no job below the stored currentJobIndex is sent again.
C27_ResumeFromCursor ==
    [][\A p \in BagToSet(procs) :
          (starts > MaxStarts /\ Sends(p))
          => LET t == Target(fileQueue)
             IN  /\ t # 0
                 /\ fileQueue[t].id = p.fid
                 /\ p.job = fileQueue[t].currentJobIndex]_vars

\* ... the second half alone: no job below the stored cursor is sent
C27_NoJobBelowCursor ==
    [][\A p \in BagToSet(procs) :
          (starts > MaxStarts /\ Sends(p)) => p.job >= Cursor(fileQueue, p.fid)]_vars

\* the typingTimeout alarm fires in this step: its listener starts
TimeoutFires ==
    /\ alarms.watchdog # 0
    /\ alarms'.watchdog = 0
    /\ \E q \in BagToSet(procs') :
           q.h = "onTimeout" /\ q.pc = "wd1" /\ CopiesOf(q, procs') > CopiesOf(q, procs)

\* C28: the typingTimeout listener resets only a lock that has been held
\* for TYPING_TIMEOUT_SECONDS: when the alarm fires and the listener is
\* going to find isTyping set, the lock it finds was taken before the alarm
\* was created, never after it (alarms.watchdog is the lock serial at the
\* time the alarm was created).
C28_WatchdogClearsOldLock ==
    [][(TimeoutFires /\ state.isTyping /\ state.typingStartedAt # 0)
          => state.typingStartedAt <= alarms.watchdog]_vars

\* C29: whenever the typingTimeout alarm is pending the stored state has
\* isTyping = TRUE.
C29_WatchdogOnlyWhileLocked == alarms.watchdog # 0 => state.isTyping

\* a PROMPT_GEMINI turn is running in the page, its lock is still the stored
\* one and the typingTimeout alarm has not fired
TurnPending ==
    \E tn \in BagToSet(turns) :
        /\ tn.kind = "job"
        /\ state.isTyping /\ state.typingStartedAt = tn.ts
        /\ alarms.watchdog # 0

\* C30: from the sending of PROMPT_GEMINI until its JOB_PROCESSED is handled
\* or the typingTimeout alarm fires, the processNextJob alarm is not
\* pending.
C30_NoAdvanceWhileTurnPending == TurnPending => ~alarms.advance

\* ... the frame of the sending step itself: it leaves the processNextJob
\* alarm as it is and starts no handler
C30_SendDoesNotSchedule ==
    [][\A p \in BagToSet(procs) :
          Sends(p) => (alarms'.advance = alarms.advance /\ procs' = procs (-) One(p))]_vars

\* processNextJob q enters its catch block in this step
Catches(q) == q.h = "onAlarm" /\ q.pc = "catch" /\ CopiesOf(q, procs') > CopiesOf(q, procs)

\* chrome.tabs.sendMessage of processNextJob p fails in this step
SendFailed(p) == p.h = "onAlarm" /\ p.pc = "send" /\ Stepped(p) /\ turns' = turns

\* C31: an error of processNextJob while it sends the task (as any error
\* after the run check) takes it to its catch block: the typingTimeout
\* alarm is cleared and the queue is left alone; the catch block stores
\* isTyping = FALSE, typingStartedAt = null and then arms the processNextJob
\* alarm.
C31_DispatchErrorBacksOff ==
    [][\A p \in BagToSet(procs) :
          /\ SendFailed(p)
             => (alarms'.watchdog = 0 /\ fileQueue' = fileQueue
                 /\ \E q \in BagToSet(procs') : Catches(q))
          /\ (p.h = "onAlarm" /\ p.pc = "catch" /\ Stepped(p))
             => (~state'.isTyping /\ state'.typingStartedAt = 0 /\ fileQueue' = fileQueue)
          /\ (p.h = "onAlarm" /\ p.pc = "catch2" /\ Stepped(p))
             => (alarms'.advance /\ fileQueue' = fileQueue)]_vars

\* ... the errors that reach the catch block: it clears the alarm, stores
\* the released lock, leaves the queue alone and arms the processNextJob
\* alarm
C31_CatchBacksOff ==
    [][/\ \A q \in BagToSet(procs') : Catches(q) => (alarms'.watchdog = 0 /\ fileQueue' = fileQueue)
       /\ \A p \in BagToSet(procs) :
          /\ (p.h = "onAlarm" /\ p.pc = "catch" /\ Stepped(p))
             => (~state'.isTyping /\ state'.typingStartedAt = 0 /\ fileQueue' = fileQueue)
          /\ (p.h = "onAlarm" /\ p.pc = "catch2" /\ Stepped(p))
             => (alarms'.advance /\ fileQueue' = fileQueue)]_vars

\* C32: a processCompletedJob whose addResult failed leaves the stored queue
\* as it is: no currentJobIndex and no status is changed by it.
C32_FailedSaveLeavesQueue ==
    [][\A p \in BagToSet(procs) :
          (p.h = "completed" /\ p.res = "unsaved" /\ Stepped(p)) => fileQueue' = fileQueue]_vars

\* the number of consecutive entries of h ending at k that are non-zero
\* lengths equal to the entry before them
RECURSIVE RunLength(_, _)
RunLength(h, k) ==
    IF k = 0 THEN 0
    ELSE IF k > 1 /\ h[k] > 0 /\ h[k] = h[k - 1] THEN RunLength(h, k - 1) + 1
    ELSE 0

IsSample(x) == x # NoResponse

\* the lengths sampled by the first k polls: the polls that found a
\* response element
Sampled(h, k) == SelectSeq(SubSeq(h, 1, k), IsSample)

SampledRun(h, k) == RunLength(Sampled(h, k), Len(Sampled(h, k)))

Waited == page.pc = "wait" \/ page.outcome \in {"stable", "timeout"}

\* C33 as stated: stableCount is the number of consecutive polls, up to the
\* last one, whose length is non-zero and equal to that of the poll before;
\* waitForTextStability returns at the first poll where it reaches 3 and
\* throws exactly when MaxPolls polls have passed without that.
C33_StableAfterThreePolls ==
    Waited =>
        LET h == page.hist
            n == Len(h)
        IN  /\ page.stableCount = RunLength(h, n)
            /\ \A k \in 1..(n - 1) : RunLength(h, k) < StableThreshold
            /\ page.outcome = "stable" <=> RunLength(h, n) >= StableThreshold
            /\ page.outcome = "timeout" <=> (n = MaxPolls /\ RunLength(h, n) < StableThreshold)

\* C33 amended: the same with the run counted over the sampled lengths, the
\* polls that find no response element being skipped (they neither add to
\* the run nor break it, and count for the ceiling).
C33_StableAfterThreeSamples ==
    Waited =>
        LET h == page.hist
            n == Len(h)
        IN  /\ page.stableCount = SampledRun(h, n)
            /\ page.polls = n
            /\ \A k \in 1..(n - 1) : SampledRun(h, k) < StableThreshold
            /\ page.outcome = "stable" <=> SampledRun(h, n) >= StableThreshold
            /\ page.outcome = "timeout" <=> (n = MaxPolls /\ SampledRun(h, n) < StableThreshold)

\* C33 witness: the text is declared stable although a poll inside the run
\* found no response element
C33_Witness ==
    /\ page.outcome = "stable"
    /\ \E k \in (Len(page.hist) - 2)..(Len(page.hist) - 1) : page.hist[k] = NoResponse

\* C34: every turn ends: the send loop makes at most MaxAttempts attempts,
\* the stability loop at most MaxPolls polls, and a turn that has started
\* typing reaches the end of sendJobData's try block or its catch, where
\* JOB_PROCESSED is sent, whatever the page shows.
C34_TurnTerminates ==
    /\ [](page.attempts <= MaxAttempts /\ page.polls <= MaxPolls)
    /\ (page.pc \in {"submit", "wait"}) ~> (page.pc = "done")

\* C34 witness: both loops ran and the stability loop used all its polls
C34_Witness ==
    /\ page.pc = "done" /\ page.outcome = "timeout"
    /\ page.polls = MaxPolls /\ page.attempts > 0

\* C35: whenever processNextJob sends PROMPT_GEMINI the stored state has
\* promptSent = TRUE.
C35_NoTaskBeforeHandshake ==
    [][\A p \in BagToSet(procs) : Sends(p) => state.promptSent]_vars

\* C36: the text sendJobData reads after waitForTextStability belongs to a
\* response element that was added after initialCount was sampled.
C36_HarvestsOwnResponse == page.outcome = "stable" => page.read > page.initialCount

\* ... the same for the turns whose response elements never disappear and
\* whose send loop ended on a new response element
C36_HarvestsOwnAfterCount ==
    (page.outcome = "stable" /\ page.accepted = "count" /\ \A k \in 1..Len(page.hist) : page.hist[k] # NoResponse)
        => page.read > page.initialCount

\* ------------------------------------------------ side panel: file ingestion
\* the id of a file selected in the picker: Date.now() + Math.random(), an
\* id that no file of the initial queue has
NewId == MaxFiles + 1

\* the 'change' listener for one selected file: the file is read and parsed,
\* saveJobData(fileId, jsonData) stores its jobs
Ingest ==
    \E total \in 0..MaxJobs :
        /\ ops < MaxOps
        /\ CanSpawn
        /\ ops' = ops + 1
        /\ jobData' = [i \in DOMAIN jobData \union {NewId} |-> IF i = NewId THEN total ELSE jobData[i]]
        /\ Spawn([Proc("ingest", "in1") EXCEPT !.fid = NewId, !.n = total])
        /\ UNCHANGED <<state, fileQueue, results, alarms, turns, clock, starts, signals, retry, worker, page>>

\* addFileMetadata: chrome.storage.local.get(['fileQueue'], ...)
IngestRead ==
    \E p \in Running("ingest", "in1") :
        /\ Step(p, [p EXCEPT !.pc = "in2", !.files = fileQueue])
        /\ UNCHANGED <<state, fileQueue, jobData, results, alarms, turns, clock, starts, ops, signals, retry, worker, page>>

\* ... and in its callback queue.push(metadata), chrome.storage.local.set
IngestWrite ==
    \E p \in Running("ingest", "in2") :
        /\ fileQueue' = Append(p.files, FileMeta(p.fid, p.n))
        /\ End(p)
        /\ UNCHANGED <<state, jobData, results, alarms, turns, clock, starts, ops, signals, retry, worker, page>>

Ingestion == Ingest \/ IngestRead \/ IngestWrite

\* one run during which the operator selects one more file
NextIngest == NextRun \/ Ingestion

SpecIngest == Init /\ [][NextIngest]_vars

\* the ingestion has returned from addFileMetadata
Ingested == ops > 0 /\ \A p \in BagToSet(procs) : p.h # "ingest"

\* C37: once a file has been ingested it stays in the queue until an export
\* empties the queue: no queue write of processNextJob or processCompletedJob
\* that interleaves with the ingestion drops it.
C37_IngestedBatchKept == (Ingested /\ signals = 0) => NewId \in QueueIds

\* every file of the stored queue is complete
AllComplete == \A i \in 1..Len(fileQueue) : fileQueue[i].status = "complete"

\* AUTO_EXPORT_CSV is sent in this step
DrainSignalled == signals' > signals

\* the clean-up of the automatic export empties the job data store or the
\* file queue in this step
CleanupEmpties == \E p \in Running("export", "ex2") \union Running("export", "ex3") : Stepped(p)

\* C38: when AUTO_EXPORT_CSV is sent, and when the clean-up it triggers
\* empties the job data store and the file queue, every file in the stored
\* queue is complete.
C38_DrainDiscardsNoWork == [][(DrainSignalled \/ CleanupEmpties) => AllComplete]_vars

\* ... the same for the clean-up alone
C38_CleanupWhenAllComplete == [][CleanupEmpties => AllComplete]_vars

\* ------------------------------------------------ a run that the operator stops
\* STOP_PROCESSING after START_PROCESSING: no start request follows the stop
StopRun == starts = MaxStarts /\ Stop

NextStop == NextRun \/ StopRun \/ StopWrite

SpecStop == Init /\ [][NextStop]_vars

\* stopProcessing has returned
Stopped == ops > 0 /\ Running("stop", "stop1") = {}

\* PROMPT_GEMINI or SEND_INITIAL_PROMPT is sent to the tab in this step
MessageSent == BagCardinality(turns') > BagCardinality(turns)

\* the lock is taken in this step
LockTaken == ~state.isTyping /\ state'.isTyping

\* C39: once stopProcessing has returned, and until the next start request,
\* no PROMPT_GEMINI or SEND_INITIAL_PROMPT is sent and the lock is not taken.
C39_StopIsEffective == [][Stopped => (~MessageSent /\ ~LockTaken)]_vars

\* ... when stopProcessing returns while no handler is suspended, the run
\* stays stopped, whatever message of a pending turn arrives later
C39_QuietStopStays ==
    []((Stopped /\ procs = EmptyBag /\ state = DefaultState) => [](~state.isTyping /\ ~state.isProcessing))

\* JOB_PROCESSED for the handler q arrives in this step
Arrives(q) == q.h = "completed" /\ q.pc = "pcj1" /\ CopiesOf(q, procs') > CopiesOf(q, procs)

\* processCompletedJob is about to store the released lock
Unlocking(p) == p.h = "completed" /\ p.pc = "pcj1"

\* processCompletedJob has read a queue in which findIndex finds no file
\* with the id of the message
Orphaned(p) == p.h = "completed" /\ p.pc = "pcj4" /\ FindIndex(p.files, p.fid) = 0

\* C40: a JOB_PROCESSED whose fileId is the id of no file in the queue
\* clears the typingTimeout alarm, stores isTyping = false, leaves the queue
\* as it is and arms the processNextJob alarm.
C40_OrphanCompletion ==
    [][/\ \A q \in BagToSet(procs') : (Arrives(q) /\ q.fid \notin QueueIds) => alarms'.watchdog = 0
       /\ \A p \in BagToSet(procs) :
             /\ (Unlocking(p) /\ Stepped(p) /\ p.fid \notin QueueIds) => ~state'.isTyping
             /\ (Orphaned(p) /\ Stepped(p)) => (fileQueue' = fileQueue /\ alarms'.advance)]_vars

\* C40 witness: the file was deleted before processCompletedJob read the
\* queue; the handler has released the lock, saved the result and found no
\* file with the id.
C40_Witness ==
    \E p \in BagToSet(procs) :
        /\ Orphaned(p)
        /\ p.fid \notin QueueIds
        /\ jobData[p.fid] = -1
        /\ signals = 0
        /\ ~state.isTyping
        /\ alarms.watchdog = 0
        /\ BagIn(ResultEntry(p.fid, p.job), results)

====
